---- MODULE Spec2Model ----
(***************************************************************************)
(* Model of the identifier utilities of the ABDM ABHA SDK (validation.ts,  *)
(* VALIDATION_PATTERNS of constants.ts).                                   *)
(*                                                                         *)
(* A JavaScript string is a sequence of one-character strings.  A          *)
(* JavaScript value is a record [kind, s, t]: kind "string" (s holds the   *)
(* characters), "null" (an absent argument or a null result), "true",      *)
(* "false", "object" (the {username, domain} pair: s, t), "Error" (the     *)
(* Error a function throws itself) and "TypeError" (a method called on an  *)
(* absent argument).  Further kinds carry their own fields: "undefined",   *)
(* "profile" (firstName, middleName, lastName), "date" (year, month, date) *)
(* and "number" (n).                                                       *)
(*                                                                         *)
(* The state is a client's session with the library: the components the    *)
(* client built its input from (parts), the functions it called (calls)    *)
(* and the argument followed by every result (vals).                       *)
(*                                                                         *)
(* A second specification, SpecSession, models the session-token step of   *)
(* the integration example (getSessionToken, called first by every         *)
(* loginWithABHA): pc is each caller's position in getSessionToken, now    *)
(* the clock in seconds, started what each caller's running call knew when *)
(* it began, handed the token each caller was returned last and latest the *)
(* token returned most recently to any caller.                             *)
(*                                                                         *)
(* A third specification, SpecLogin, models the OTP login of the example   *)
(* (requestOTP, verifyOTP) as one client runs it: step is the call the     *)
(* client is suspended in, net the network calls issued so far, issued the *)
(* transaction ids the gateway has handed out, verified those a verify     *)
(* call has consumed, and outcome what the last call returned or threw.    *)
(***************************************************************************)
EXTENDS Integers, Sequences, FiniteSets, TLC

VARIABLES parts, calls, vals, pc, now, started, handed, latest,
          step, net, issued, verified, outcome

vars ==
  <<parts, calls, vals, pc, now, started, handed, latest,
    step, net, issued, verified, outcome>>

libraryVars == <<parts, calls, vals>>

sessionVars == <<pc, now, started, handed, latest>>

loginVars == <<step, net, issued, verified, outcome>>

---------------------------------------------------------------------------
(* Bounds of the model *)

\* the longest run of digits an input is built from
MaxDigits == 15

\* the longest username an input is built from
MaxUserLen == 33

\* the longest chain of calls, each applied to the result of the one before
MaxCalls == 2

\* the clock of SpecSession advances by TickSeconds and stops at MaxNow
TickSeconds == 300

MaxNow == 1500

\* the OTP login of SpecLogin issues at most MaxNet network calls
MaxNet == 3

---------------------------------------------------------------------------
(* Characters and JavaScript string primitives *)

Digit == {"0", "1", "2", "3", "4", "5", "6", "7", "8", "9"}

DigitSeq == <<"0", "1", "2", "3", "4", "5", "6", "7", "8", "9">>

UpperSeq ==
  <<"A", "B", "C", "D", "E", "F", "G", "H", "I", "J", "K", "L", "M",
    "N", "O", "P", "Q", "R", "S", "T", "U", "V", "W", "X", "Y", "Z">>

LowerSeq ==
  <<"a", "b", "c", "d", "e", "f", "g", "h", "i", "j", "k", "l", "m",
    "n", "o", "p", "q", "r", "s", "t", "u", "v", "w", "x", "y", "z">>

Range(f) == {f[i] : i \in DOMAIN f}

\* the characters String.prototype.trim removes (those the inputs use)
Whitespace == {" ", "\t", "\n", "\r"}

Min(a, b) == IF a < b THEN a ELSE b

Max(a, b) == IF a > b THEN a ELSE b

SetMin(S) == CHOOSE x \in S : \A y \in S : x <= y

SetMax(S) == CHOOSE x \in S : \A y \in S : x >= y

\* one character of String.prototype.toLowerCase
ToLowerChar(c) ==
  IF c \in Range(UpperSeq)
    THEN LowerSeq[CHOOSE i \in DOMAIN UpperSeq : UpperSeq[i] = c]
    ELSE c

\* String.prototype.toLowerCase
ToLowerCase(s) == [i \in 1..Len(s) |-> ToLowerChar(s[i])]

\* String.prototype.trim
Trim(s) ==
  LET keep == {i \in 1..Len(s) : s[i] \notin Whitespace}
  IN  IF keep = {} THEN << >> ELSE SubSeq(s, SetMin(keep), SetMax(keep))

IsDigit(c) == c \in Digit

NotHyphen(c) == c # "-"

\* s.replace(/\D/g, ''): every non-digit removed
StripNonDigits(s) == SelectSeq(s, IsDigit)

\* s.replace(/-/g, ''): every hyphen removed
RemoveHyphens(s) == SelectSeq(s, NotHyphen)

\* the relative index of String.prototype.slice made absolute
SliceIndex(k, len) == IF k < 0 THEN Max(len + k, 0) ELSE Min(k, len)

\* s.slice(b, e), 0-based, e exclusive, negative indexes counted from the end
Slice(s, b, e) ==
  LET from == SliceIndex(b, Len(s))
      to   == SliceIndex(e, Len(s))
  IN  IF from >= to THEN << >> ELSE SubSeq(s, from + 1, to)

\* s.slice(b)
SliceFrom(s, b) == Slice(s, b, Len(s))

\* s.split(sep) for a one-character separator: the pieces between separators
RECURSIVE Split(_, _)
Split(s, sep) ==
  LET at == {i \in 1..Len(s) : s[i] = sep}
  IN  IF at = {}
        THEN <<s>>
        ELSE <<SubSeq(s, 1, SetMin(at) - 1)>>
               \o Split(SubSeq(s, SetMin(at) + 1, Len(s)), sep)

---------------------------------------------------------------------------
(* JavaScript values *)

Str(s) == [kind |-> "string", s |-> s, t |-> << >>]

Null == [kind |-> "null", s |-> << >>, t |-> << >>]

Bool(b) == [kind |-> IF b THEN "true" ELSE "false", s |-> << >>, t |-> << >>]

Obj(username, domain) == [kind |-> "object", s |-> username, t |-> domain]

\* throw new Error(...)
ThrownError == [kind |-> "Error", s |-> << >>, t |-> << >>]

\* a string method called on null or undefined
ThrownTypeError == [kind |-> "TypeError", s |-> << >>, t |-> << >>]

IsString(v) == v.kind = "string"

IsThrow(v) == v.kind \in {"Error", "TypeError"}

\* !value for a string or an absent argument
Falsy(v) ==
  \/ v.kind \in {"null", "undefined"}
  \/ (v.kind = "string" /\ v.s = << >>)

---------------------------------------------------------------------------
(* VALIDATION_PATTERNS: each regular expression as a predicate on a string *)

\* the bounds of {3,32} in ABHA_ADDRESS
UsernameMin == 3

UsernameMax == 32

\* [a-zA-Z0-9._-]; the i flag adds no character to this class
UsernameChar == Range(UpperSeq) \cup Range(LowerSeq) \cup Digit \cup {".", "_", "-"}

\* ^\d{n}$
AllDigits(s, n) == Len(s) = n /\ \A i \in 1..Len(s) : s[i] \in Digit

\* /^\d{2}-\d{4}-\d{4}-\d{4}$/
ABHA_NUMBER(s) ==
  /\ Len(s) = 17
  /\ \A i \in 1..17 : IF i \in {3, 8, 13} THEN s[i] = "-" ELSE s[i] \in Digit

\* /^\d{14}$/
ABHA_NUMBER_RAW(s) == AllDigits(s, 14)

\* ABHA_ADDRESS without its i flag: the domain matches in lower case only
ABHA_ADDRESS_CaseSensitive(s) ==
  \E n \in UsernameMin..UsernameMax :
    /\ n + 1 <= Len(s)
    /\ \A i \in 1..n : s[i] \in UsernameChar
    /\ s[n + 1] = "@"
    /\ SubSeq(s, n + 2, Len(s))
         \in {<<"a", "b", "d", "m">>, <<"s", "b", "x">>}

\* /^[a-zA-Z0-9._-]{3,32}@(abdm|sbx)$/i
ABHA_ADDRESS(s) ==
  \E n \in UsernameMin..UsernameMax :
    /\ n + 1 <= Len(s)
    /\ \A i \in 1..n : s[i] \in UsernameChar
    /\ s[n + 1] = "@"
    /\ ToLowerCase(SubSeq(s, n + 2, Len(s)))
         \in {<<"a", "b", "d", "m">>, <<"s", "b", "x">>}

\* /^[6-9]\d{9}$/
MOBILE(s) == AllDigits(s, 10) /\ s[1] \in {"6", "7", "8", "9"}

\* /^\d{12}$/
AADHAAR(s) == AllDigits(s, 12)

\* /^\d{6}$/
PIN_CODE(s) == AllDigits(s, 6)

\* /^\d{6}$/
OTP(s) == AllDigits(s, 6)

---------------------------------------------------------------------------
(* ABHA number *)

isValidABHANumber(value) ==
  IF Falsy(value) THEN Bool(FALSE) ELSE Bool(ABHA_NUMBER(Trim(value.s)))

isValidABHANumberRaw(value) ==
  IF Falsy(value) THEN Bool(FALSE) ELSE Bool(ABHA_NUMBER_RAW(Trim(value.s)))

\* formatABHANumber with the length test on the argument, not on its digits
formatABHANumber_RawLength(digits) ==
  IF ~IsString(digits) THEN ThrownTypeError
  ELSE LET cleaned == StripNonDigits(digits.s)
       IN  IF Len(digits.s) # 14 THEN ThrownError
           ELSE Str(Slice(cleaned, 0, 2) \o <<"-">> \o Slice(cleaned, 2, 6)
                      \o <<"-">> \o Slice(cleaned, 6, 10)
                      \o <<"-">> \o Slice(cleaned, 10, 14))

\* formatABHANumber with the groups joined by spaces, as formatAadhaar does
formatABHANumber_Spaces(digits) ==
  IF ~IsString(digits) THEN ThrownTypeError
  ELSE LET cleaned == StripNonDigits(digits.s)
       IN  IF Len(cleaned) # 14 THEN ThrownError
           ELSE Str(Slice(cleaned, 0, 2) \o <<" ">> \o Slice(cleaned, 2, 6)
                      \o <<" ">> \o Slice(cleaned, 6, 10)
                      \o <<" ">> \o Slice(cleaned, 10, 14))

formatABHANumber(digits) ==
  IF ~IsString(digits) THEN ThrownTypeError
  ELSE LET cleaned == StripNonDigits(digits.s)
       IN  IF Len(cleaned) # 14 THEN ThrownError
           ELSE Str(Slice(cleaned, 0, 2) \o <<"-">> \o Slice(cleaned, 2, 6)
                      \o <<"-">> \o Slice(cleaned, 6, 10)
                      \o <<"-">> \o Slice(cleaned, 10, 14))

\* parseABHANumber with replace(/-/, ''): only the first hyphen removed
parseABHANumber_FirstHyphenOnly(formatted) ==
  IF ~IsString(formatted) THEN ThrownTypeError
  ELSE LET at == {i \in 1..Len(formatted.s) : formatted.s[i] = "-"}
       IN  IF at = {} THEN formatted
           ELSE Str(SubSeq(formatted.s, 1, SetMin(at) - 1)
                      \o SubSeq(formatted.s, SetMin(at) + 1, Len(formatted.s)))

parseABHANumber(formatted) ==
  IF ~IsString(formatted) THEN ThrownTypeError
  ELSE Str(RemoveHyphens(formatted.s))

\* maskABHANumber without its isValidABHANumber guard
maskABHANumber_NoGuard(abhaNumber) ==
  IF ~IsString(abhaNumber) THEN abhaNumber
  ELSE Str(<<"X", "X", "-", "X", "X", "X", "X", "-", "X", "X", "X", "X", "-">>
             \o SliceFrom(abhaNumber.s, -4))

maskABHANumber(abhaNumber) ==
  IF isValidABHANumber(abhaNumber).kind # "true" THEN abhaNumber
  ELSE Str(<<"X", "X", "-", "X", "X", "X", "X", "-", "X", "X", "X", "X", "-">>
             \o SliceFrom(abhaNumber.s, -4))

---------------------------------------------------------------------------
(* ABHA address *)

SANDBOX == <<"s", "a", "n", "d", "b", "o", "x">>

PRODUCTION == <<"p", "r", "o", "d", "u", "c", "t", "i", "o", "n">>

SBX == <<"s", "b", "x">>

ABDM == <<"a", "b", "d", "m">>

isValidABHAAddress(value) ==
  IF Falsy(value) THEN Bool(FALSE) ELSE Bool(ABHA_ADDRESS(Trim(value.s)))

\* formatABHAAddress without trim()
formatABHAAddress_NoTrim(username, environment) ==
  IF ~IsString(username) THEN ThrownTypeError
  ELSE LET env    == IF environment.kind = "null" THEN Str(PRODUCTION)
                     ELSE environment
           domain == IF env = Str(SANDBOX) THEN SBX ELSE ABDM
       IN  Str(ToLowerCase(username.s) \o <<"@">> \o domain)

\* environment is Null when the caller omits it: the default parameter applies
formatABHAAddress(username, environment) ==
  IF ~IsString(username) THEN ThrownTypeError
  ELSE LET env    == IF environment.kind = "null" THEN Str(PRODUCTION)
                     ELSE environment
           domain == IF env = Str(SANDBOX) THEN SBX ELSE ABDM
       IN  Str(Trim(ToLowerCase(username.s)) \o <<"@">> \o domain)

\* parseABHAAddress without toLowerCase()
parseABHAAddress_NoLowerCase(address) ==
  IF isValidABHAAddress(address).kind # "true" THEN Null
  ELSE LET pieces == Split(address.s, "@")
       IN  Obj(pieces[1], pieces[2])

\* [username, domain] = address.toLowerCase().split('@'): the first two pieces
parseABHAAddress(address) ==
  IF isValidABHAAddress(address).kind # "true" THEN Null
  ELSE LET pieces == Split(ToLowerCase(address.s), "@")
       IN  Obj(pieces[1], pieces[2])

getEnvironmentFromAddress(address) ==
  LET parsed == parseABHAAddress(address)
  IN  IF parsed.kind = "null" THEN Null
      ELSE IF parsed.t = SBX THEN Str(SANDBOX) ELSE Str(PRODUCTION)

---------------------------------------------------------------------------
(* Mobile number, Aadhaar, PIN code, OTP *)

\* isValidMobile accepting any first digit
isValidMobile_AnyFirstDigit(value) ==
  IF Falsy(value) THEN Bool(FALSE)
  ELSE Bool(AllDigits(StripNonDigits(value.s), 10))

isValidMobile(value) ==
  IF Falsy(value) THEN Bool(FALSE) ELSE Bool(MOBILE(StripNonDigits(value.s)))

maskMobile(mobile) ==
  IF ~IsString(mobile) THEN ThrownTypeError
  ELSE LET cleaned == StripNonDigits(mobile.s)
       IN  IF Len(cleaned) # 10 THEN mobile
           ELSE Str(<<"X", "X", "X", "X", "X", "X">> \o SliceFrom(cleaned, -4))

\* formatMobile with the test cleaned.length < 10
\* formatMobile slicing its argument instead of the cleaned digits
formatMobile_SlicesInput(mobile) ==
  IF ~IsString(mobile) THEN ThrownTypeError
  ELSE LET cleaned == StripNonDigits(mobile.s)
       IN  IF Len(cleaned) # 10 THEN mobile
           ELSE Str(Slice(mobile.s, 0, 5) \o <<" ">> \o SliceFrom(mobile.s, 5))

formatMobile_AtLeast10(mobile) ==
  IF ~IsString(mobile) THEN ThrownTypeError
  ELSE LET cleaned == StripNonDigits(mobile.s)
       IN  IF Len(cleaned) < 10 THEN mobile
           ELSE Str(Slice(cleaned, 0, 5) \o <<" ">> \o SliceFrom(cleaned, 5))

formatMobile(mobile) ==
  IF ~IsString(mobile) THEN ThrownTypeError
  ELSE LET cleaned == StripNonDigits(mobile.s)
       IN  IF Len(cleaned) # 10 THEN mobile
           ELSE Str(Slice(cleaned, 0, 5) \o <<" ">> \o SliceFrom(cleaned, 5))

\* cleanMobile dropping a leading 91 whatever the number of digits
cleanMobile_AnyLength(mobile) ==
  IF ~IsString(mobile) THEN ThrownTypeError
  ELSE LET cleaned == StripNonDigits(mobile.s)
       IN  IF Len(cleaned) >= 2 /\ Slice(cleaned, 0, 2) = <<"9", "1">>
           THEN Str(SliceFrom(cleaned, 2))
           ELSE Str(cleaned)

cleanMobile(mobile) ==
  IF ~IsString(mobile) THEN ThrownTypeError
  ELSE LET cleaned == StripNonDigits(mobile.s)
       IN  IF Len(cleaned) = 12 /\ Slice(cleaned, 0, 2) = <<"9", "1">>
           THEN Str(SliceFrom(cleaned, 2))
           ELSE Str(cleaned)

isValidAadhaar(value) ==
  IF Falsy(value) THEN Bool(FALSE) ELSE Bool(AADHAAR(StripNonDigits(value.s)))

\* maskAadhaar with the length test cleaned.length < 12
maskAadhaar_AtLeast12(aadhaar) ==
  IF ~IsString(aadhaar) THEN ThrownTypeError
  ELSE LET cleaned == StripNonDigits(aadhaar.s)
       IN  IF Len(cleaned) < 12 THEN aadhaar
           ELSE Str(<<"X", "X", "X", "X", "X", "X", "X", "X">>
                      \o SliceFrom(cleaned, -4))

maskAadhaar(aadhaar) ==
  IF ~IsString(aadhaar) THEN ThrownTypeError
  ELSE LET cleaned == StripNonDigits(aadhaar.s)
       IN  IF Len(cleaned) # 12 THEN aadhaar
           ELSE Str(<<"X", "X", "X", "X", "X", "X", "X", "X">>
                      \o SliceFrom(cleaned, -4))

formatAadhaar(aadhaar) ==
  IF ~IsString(aadhaar) THEN ThrownTypeError
  ELSE LET cleaned == StripNonDigits(aadhaar.s)
       IN  IF Len(cleaned) # 12 THEN aadhaar
           ELSE Str(Slice(cleaned, 0, 4) \o <<" ">> \o Slice(cleaned, 4, 8)
                      \o <<" ">> \o Slice(cleaned, 8, 12))

isValidPinCode(value) ==
  IF Falsy(value) THEN Bool(FALSE) ELSE Bool(PIN_CODE(Trim(value.s)))

\* isValidOTP without trim()
isValidOTP_NoTrim(value) ==
  IF Falsy(value) THEN Bool(FALSE) ELSE Bool(OTP(value.s))

isValidOTP(value) ==
  IF Falsy(value) THEN Bool(FALSE) ELSE Bool(OTP(Trim(value.s)))

---------------------------------------------------------------------------
(* Gender mapping *)

\* the value of mapping[key] for a key the Record does not hold
Undefined == [kind |-> "undefined", s |-> << >>, t |-> << >>]

MALE == <<"M", "A", "L", "E">>

FEMALE == <<"F", "E", "M", "A", "L", "E">>

\* 'OTHER' (OTHER is a reserved word of TLA+)
SexOTHER == <<"O", "T", "H", "E", "R">>

toABHAGender(sex) ==
  CASE sex = Str(MALE)   -> Str(<<"M">>)
    [] sex = Str(FEMALE) -> Str(<<"F">>)
    [] sex = Str(SexOTHER) -> Str(<<"O">>)
    [] OTHER             -> Undefined

\* fromABHAGender with the entries of F and O exchanged
fromABHAGender_Exchanged(gender) ==
  CASE gender = Str(<<"M">>) -> Str(MALE)
    [] gender = Str(<<"F">>) -> Str(SexOTHER)
    [] gender = Str(<<"O">>) -> Str(FEMALE)
    [] OTHER                 -> Undefined

fromABHAGender(gender) ==
  CASE gender = Str(<<"M">>) -> Str(MALE)
    [] gender = Str(<<"F">>) -> Str(FEMALE)
    [] gender = Str(<<"O">>) -> Str(SexOTHER)
    [] OTHER                 -> Undefined

---------------------------------------------------------------------------
(* Name helpers *)

\* a profile object { firstName, middleName?, lastName }
Profile(first, middle, last) ==
  [kind |-> "profile", firstName |-> first, middleName |-> middle,
   lastName |-> last]

Truthy(v) == ~Falsy(v)

\* Array.prototype.join of an array of strings
RECURSIVE Join(_, _)
Join(strings, sep) ==
  IF strings = << >> THEN << >>
  ELSE IF Len(strings) = 1 THEN strings[1].s
  ELSE strings[1].s \o sep \o Join(Tail(strings), sep)

formatABHAName(profile) ==
  IF profile.kind # "profile" THEN ThrownTypeError
  ELSE Str(Join(SelectSeq(<<profile.firstName, profile.middleName,
                            profile.lastName>>, Truthy),
                <<" ">>))

---------------------------------------------------------------------------
(* Date helpers.  A Date is a record [kind |-> "date", year, month, date]  *)
(* holding what getFullYear(), getMonth() (0 to 11) and getDate() return;  *)
(* a number is [kind |-> "number", n].                                     *)

DateValue(year, monthIndex, day) ==
  [kind |-> "date", year |-> year, month |-> monthIndex, date |-> day]

Num(n) == [kind |-> "number", n |-> n]

DigitValue(c) == CHOOSE i \in 0..9 : DigitSeq[i + 1] = c

\* parseInt of a string of decimal digits
RECURSIVE ParseInt(_)
ParseInt(s) ==
  IF s = << >> THEN 0
  ELSE ParseInt(SubSeq(s, 1, Len(s) - 1)) * 10 + DigitValue(s[Len(s)])

\* Number.prototype.toString of an integer
RECURSIVE NumberToString(_)
NumberToString(n) ==
  IF n < 0 THEN <<"-">> \o NumberToString(0 - n)
  ELSE IF n < 10 THEN <<DigitSeq[n + 1]>>
  ELSE NumberToString(n \div 10) \o <<DigitSeq[(n % 10) + 1]>>

\* String.prototype.padStart with a one-character filler
PadStart(s, n, c) ==
  IF Len(s) >= n THEN s ELSE [i \in 1..(n - Len(s)) |-> c] \o s

IsLeapYear(y) == (y % 4 = 0 /\ y % 100 # 0) \/ y % 400 = 0

DaysInMonth(y, monthIndex) ==
  CASE monthIndex = 1 -> IF IsLeapYear(y) THEN 29 ELSE 28
    [] monthIndex \in {3, 5, 8, 10} -> 30
    [] OTHER -> 31

\* the Date constructor carries a month or day outside its range over into
\* the neighbouring years and months
RECURSIVE Normalise(_, _, _)
Normalise(y, monthIndex, day) ==
  IF monthIndex < 0 THEN Normalise(y - 1, monthIndex + 12, day)
  ELSE IF monthIndex > 11 THEN Normalise(y + 1, monthIndex - 12, day)
  ELSE IF day < 1
    THEN IF monthIndex = 0
         THEN Normalise(y - 1, 11, day + DaysInMonth(y - 1, 11))
         ELSE Normalise(y, monthIndex - 1, day + DaysInMonth(y, monthIndex - 1))
  ELSE IF day > DaysInMonth(y, monthIndex)
    THEN Normalise(y, monthIndex + 1, day - DaysInMonth(y, monthIndex))
  ELSE DateValue(y, monthIndex, day)

\* new Date(year, monthIndex, day), in local time: a year of 0 to 99 means
\* 1900 + year
NewDate(year, monthIndex, day) ==
  Normalise(IF year \in 0..99 THEN 1900 + year ELSE year, monthIndex, day)

\* /^(\d{2})-(\d{2})-(\d{4})$/
ABHA_DATE(s) ==
  /\ Len(s) = 10
  /\ s[3] = "-" /\ s[6] = "-"
  /\ \A i \in {1, 2, 4, 5, 7, 8, 9, 10} : s[i] \in Digit

parseABHADate_Trim(dateStr) ==
  IF ~IsString(dateStr) THEN ThrownTypeError
  ELSE IF ~ABHA_DATE(Trim(dateStr.s)) THEN Null
  ELSE LET s == Trim(dateStr.s)
       IN  NewDate(ParseInt(SubSeq(s, 7, 10)), ParseInt(SubSeq(s, 4, 5)) - 1,
                   ParseInt(SubSeq(s, 1, 2)))

parseABHADate(dateStr) ==
  IF ~IsString(dateStr) THEN ThrownTypeError
  ELSE IF ~ABHA_DATE(dateStr.s) THEN Null
  ELSE LET day == SubSeq(dateStr.s, 1, 2)
           month == SubSeq(dateStr.s, 4, 5)
           year == SubSeq(dateStr.s, 7, 10)
       IN  NewDate(ParseInt(year), ParseInt(month) - 1, ParseInt(day))

toABHADate(date) ==
  IF date.kind # "date" THEN ThrownTypeError
  ELSE LET day == PadStart(NumberToString(date.date), 2, "0")
           month == PadStart(NumberToString(date.month + 1), 2, "0")
           year == NumberToString(date.year)
       IN  Str(day \o <<"-">> \o month \o <<"-">> \o year)

\* today is what new Date() returns at the time of the call
calculateAge(dobStr, today) ==
  LET dob == parseABHADate(dobStr)
      age == today.year - dob.year
      monthDiff == today.month - dob.month
  IN  IF IsThrow(dob) THEN dob
      ELSE IF dob = Null THEN Null
      ELSE IF monthDiff < 0 \/ (monthDiff = 0 /\ today.date < dob.date)
        THEN Num(age - 1)
      ELSE Num(age)

---------------------------------------------------------------------------
(* The inputs a client passes.  An input is described by its parts, which  *)
(* say what the input is without running any library code on it:           *)
(*   family "number":  pre, n digits (the first one is start, the others   *)
(*                     count up modulo 10) laid out in a style, post       *)
(*   family "address": pre, user, sep, dom, post                           *)
(*   family "sex", "gender": word, a value of SexEnum or ABHAGender        *)
(*   family "name":    first, middle, last, the parts of a profile's name  *)
(*   family "datestr": the fields dd, mm, yyyy written in a shape          *)
(*   family "date":    year, month (0 to 11), date of a Date object        *)
(* pre and post hold whitespace only; absent is an omitted (null) argument.*)

\* the first digit of a run of digits
Starts == 0..9

\* the run of n digits that starts with digit start
Digits(n, start) == [i \in 1..n |-> DigitSeq[((start + i - 1) % 10) + 1]]

\* a layout: the character written after the digits at the positions at
Styles ==
  [ raw     |-> [sep |-> "-", at |-> {}],
    abha    |-> [sep |-> "-", at |-> {2, 6, 10}],
    hyphen3 |-> [sep |-> "-", at |-> {3, 7, 11}],
    space4  |-> [sep |-> " ", at |-> {4, 8}],
    space5  |-> [sep |-> " ", at |-> {5}],
    letter  |-> [sep |-> "x", at |-> {1}] ]

StyleNames == DOMAIN Styles

RECURSIVE Interleave(_, _, _)
Interleave(d, i, style) ==
  IF i > Len(d) THEN << >>
  ELSE <<d[i]>>
         \o (IF i \in style.at /\ i < Len(d) THEN <<style.sep>> ELSE << >>)
         \o Interleave(d, i + 1, style)

\* the digits d written in the layout named style
Layout(d, style) == Interleave(d, 1, Styles[style])

Pres == {<< >>, <<" ", "\t">>}

Posts == {<< >>, <<" ">>, <<"\n">>}

NumberInputs ==
  [family : {"number"}, absent : {FALSE}, n : 0..MaxDigits, start : Starts,
   style : StyleNames, pre : Pres, post : Posts,
   user : {<< >>}, sep : {<< >>}, dom : {<< >>}]

\* the characters usernames are drawn from, repeated to the length wanted
Palettes == {<<"a">>, <<"J", "o", "h", "n", ".", "D", "_", "9", "-">>}

\* a character outside the username class, written as the second character
BadChars == {"", " ", "!"}

Username(n, palette, bad) ==
  [i \in 1..n |->
     IF bad # "" /\ i = 2 /\ n >= 3 THEN bad
     ELSE palette[((i - 1) % Len(palette)) + 1]]

\* lengths around both ends of {3,32}
UserLens == (0..(UsernameMin + 1)) \cup ((UsernameMax - 1)..MaxUserLen)

Users ==
  {Username(n, p, b) : n \in UserLens, p \in Palettes, b \in BadChars}
    \cup {<<"j", "o", "h", "n", ".", "d", "o", "e">>,
          <<"t", "e", "s", "t", "_", "u", "s", "e", "r">>,
          <<"J", "o", "h", "n", "D", "o", "e">>,
          <<"j", "o", "h", "n">>,
          <<"a", "b">>}

Seps == {<<"@">>, << >>, <<"@", "@">>}

Doms ==
  {ABDM, SBX, <<"A", "B", "D", "M">>, <<"S", "b", "x">>, << >>,
   <<"a", "b", "d">>, <<"s", "b", "x", "x">>,
   <<"g", "m", "a", "i", "l", ".", "c", "o", "m">>}

AddressInputs ==
  [family : {"address"}, absent : {FALSE}, n : {0}, start : {1},
   style : {"raw"}, pre : Pres, post : Posts,
   user : Users, sep : Seps, dom : Doms]

\* an omitted argument
AbsentInputs ==
  [family : {"number", "address"}, absent : {TRUE}, n : {0}, start : {1},
   style : {"raw"}, pre : {<< >>}, post : {<< >>},
   user : {<< >>}, sep : {<< >>}, dom : {<< >>}]

\* the values of SexEnum and of ABHAGender
SexInputs ==
  [family : {"sex"}, absent : {FALSE}, word : {MALE, FEMALE, SexOTHER}]

GenderInputs ==
  [family : {"gender"}, absent : {FALSE}, word : {<<"M">>, <<"F">>, <<"O">>}]

\* the strings a profile carries as a name part; middleName may be missing
NameWords ==
  {<< >>, <<"J", "o">>, <<" ">>, <<"D", "e", " ">>, <<"v", "a", "n", " ", "d">>}

NameInputs ==
  [family : {"name"}, absent : {FALSE},
   first : {Str(w) : w \in NameWords},
   middle : {Str(w) : w \in NameWords} \cup {Undefined},
   last : {Str(w) : w \in NameWords}]

\* Date strings: a day, month and year field written in a shape.  Only the
\* shape "strict" is DD-MM-YYYY; the fields also take values no calendar has.
DayFields == {0, 1, 13, 26, 29, 31, 32}

MonthFields == {0, 1, 2, 11, 12, 13}

YearFields == {0, 50, 999, 1989, 2020, 2024, 9999}

DateShapes ==
  {"strict", "slash", "iso", "unpadded", "yy", "year5", "lead", "trail",
   "newline"}

TwoDigits(n) == PadStart(NumberToString(n), 2, "0")

FourDigits(n) == PadStart(NumberToString(n), 4, "0")

DateString(p) ==
  LET dd == TwoDigits(p.dd)
      mm == TwoDigits(p.mm)
      yyyy == FourDigits(p.yyyy)
      strict == dd \o <<"-">> \o mm \o <<"-">> \o yyyy
  IN  CASE p.shape = "strict"   -> strict
        [] p.shape = "slash"    -> dd \o <<"/">> \o mm \o <<"/">> \o yyyy
        [] p.shape = "iso"      -> yyyy \o <<"-">> \o mm \o <<"-">> \o dd
        [] p.shape = "unpadded" ->
             NumberToString(p.dd) \o <<"-">> \o NumberToString(p.mm)
               \o <<"-">> \o yyyy
        [] p.shape = "yy"       ->
             dd \o <<"-">> \o mm \o <<"-">> \o TwoDigits(p.yyyy % 100)
        [] p.shape = "year5"    -> strict \o <<"0">>
        [] p.shape = "lead"     -> <<" ">> \o strict
        [] p.shape = "trail"    -> strict \o <<" ">>
        [] p.shape = "newline"  -> strict \o <<"\n">>

DateStringInputs ==
  {p \in [family : {"datestr"}, absent : {FALSE}, dd : DayFields,
          mm : MonthFields, yyyy : YearFields, shape : DateShapes] :
     p.shape = "unpadded" => (p.dd < 10 \/ p.mm < 10)}
    \cup [family : {"datestr"}, absent : {TRUE}, dd : {1}, mm : {1},
          yyyy : {2020}, shape : {"strict"}]

\* Date objects: the calendar dates of some years from 1 to 9999
DateYears == {1, 50, 99, 100, 999, 1000, 1989, 2024, 9999}

DateDays == {1, 9, 10, 28, 29, 30, 31}

DateInputs ==
  {p \in [family : {"date"}, absent : {FALSE}, year : DateYears,
          month : 0..11, date : DateDays] :
     p.date <= DaysInMonth(p.year, p.month)}

\* what new Date() may return when calculateAge runs
Todays ==
  {DateValue(2026, 1, 10), DateValue(2026, 10, 25), DateValue(2026, 10, 26),
   DateValue(2024, 1, 29), DateValue(2027, 0, 1)}

\* Mobile numbers as users write them: a country-code prefix, then n digits
\* in a layout
Prefixes ==
  {<< >>, <<"9", "1">>, <<"+", "9", "1">>, <<"+", "9", "1", " ">>,
   <<"0">>, <<"9", "1", "9", "1">>}

MobileInputs ==
  [family : {"mobile"}, absent : {FALSE}, prefix : Prefixes, n : 8..12,
   start : Starts, style : {"raw", "space5"}, pre : {<< >>, <<" ">>},
   post : {<< >>, <<" ">>}]

Inputs ==
  NumberInputs \cup AddressInputs \cup AbsentInputs
    \cup SexInputs \cup GenderInputs \cup NameInputs
    \cup DateStringInputs \cup DateInputs \cup MobileInputs

\* the input without its surrounding whitespace
Core(p) ==
  IF p.family = "number" THEN Layout(Digits(p.n, p.start), p.style)
  ELSE p.user \o p.sep \o p.dom

\* the value the client passes
InputValue(p) ==
  IF p.absent THEN Null
  ELSE CASE p.family \in {"number", "address"} -> Str(p.pre \o Core(p) \o p.post)
         [] p.family \in {"sex", "gender"}     -> Str(p.word)
         [] p.family = "name" -> Profile(p.first, p.middle, p.last)
         [] p.family = "datestr" -> Str(DateString(p))
         [] p.family = "date" -> DateValue(p.year, p.month, p.date)
         [] p.family = "mobile" ->
              Str(p.pre \o p.prefix \o Layout(Digits(p.n, p.start), p.style)
                    \o p.post)

\* the environments a caller passes to formatABHAAddress; Null: omitted
Environments == {Str(SANDBOX), Str(PRODUCTION), Null}

---------------------------------------------------------------------------
(* The session token of the integration example.  getSessionToken posts    *)
(* the client credentials and returns data.accessToken of the response; a  *)
(* token is the record of when the gateway issued it and its expiresIn.    *)

\* DEFAULTS.TOKEN_EXPIRY, the expiresIn of an ABHASession, in seconds
TOKEN_EXPIRY == 1200

TOKEN_REFRESH_BUFFER_SECONDS == 60

\* the concurrent callers of loginWithABHA
Callers == {"login1", "login2"}

Token(issuedAt) == [issuedAt |-> issuedAt, expiresIn |-> TOKEN_EXPIRY]

NoToken == [issuedAt |-> 0, expiresIn |-> 0]

NotStarted == [at |-> 0, latest |-> NoToken]

\* no OTP has been requested yet
NoLogin ==
  /\ step = "ready"
  /\ net = << >>
  /\ issued = {}
  /\ verified = {}
  /\ outcome = Null

\* no caller has asked for a session token yet
NoSession ==
  /\ pc = [c \in Callers |-> "idle"]
  /\ now = 0
  /\ started = [c \in Callers |-> NotStarted]
  /\ handed = [c \in Callers |-> NoToken]
  /\ latest = NoToken

\* const accessToken = await getSessionToken(): the call posts the
\* credentials with fetch at once, whatever token was returned before
getSessionToken_Fetch(c) ==
  /\ pc[c] = "idle"
  /\ pc' = [pc EXCEPT ![c] = "fetch"]
  /\ started' = [started EXCEPT ![c] = [at |-> now, latest |-> latest]]
  /\ UNCHANGED <<now, handed, latest>>
  /\ UNCHANGED <<libraryVars, loginVars>>

\* await fetch(...) resolves: the gateway has issued a token
getSessionToken_Response(c) ==
  /\ pc[c] = "fetch"
  /\ pc' = [pc EXCEPT ![c] = "json"]
  /\ handed' = [handed EXCEPT ![c] = Token(now)]
  /\ UNCHANGED <<now, started, latest>>
  /\ UNCHANGED <<libraryVars, loginVars>>

\* await fetch(...) resolves with an error status (the gateway refuses the
\* credentials): the body carries no accessToken; response.ok is not read
getSessionToken_ErrorStatus(c) ==
  /\ pc[c] = "fetch"
  /\ pc' = [pc EXCEPT ![c] = "json"]
  /\ UNCHANGED <<now, started, handed, latest>>
  /\ UNCHANGED <<libraryVars, loginVars>>

\* await fetch(...) rejects (network failure, timeout): the call fails
\* with the error of fetch
getSessionToken_Rejected(c) ==
  /\ pc[c] = "fetch"
  /\ pc' = [pc EXCEPT ![c] = "failed"]
  /\ started' = [started EXCEPT ![c] = NotStarted]
  /\ UNCHANGED <<now, handed, latest>>
  /\ UNCHANGED <<libraryVars, loginVars>>

\* await response.json() resolves and data.accessToken is returned, which
\* is undefined when the body carries none
getSessionToken_Return(c) ==
  /\ pc[c] = "json"
  /\ pc' = [pc EXCEPT ![c] = "done"]
  /\ latest' = IF handed[c] = NoToken THEN latest ELSE handed[c]
  /\ UNCHANGED <<now, started, handed>>
  /\ UNCHANGED <<libraryVars, loginVars>>

\* the caller's login is over (it returned, or it failed with the error
\* of getSessionToken); the caller may log in again
loginWithABHA_Done(c) ==
  /\ pc[c] \in {"done", "failed"}
  /\ pc' = [pc EXCEPT ![c] = "idle"]
  /\ started' = [started EXCEPT ![c] = NotStarted]
  /\ handed' = [handed EXCEPT ![c] = NoToken]
  /\ UNCHANGED <<now, latest>>
  /\ UNCHANGED <<libraryVars, loginVars>>

\* time passes
Tick ==
  /\ now + TickSeconds <= MaxNow
  /\ now' = now + TickSeconds
  /\ UNCHANGED <<pc, started, handed, latest>>
  /\ UNCHANGED <<libraryVars, loginVars>>

InitSession ==
  /\ parts = [family |-> "login", absent |-> FALSE]
  /\ calls = << >>
  /\ vals = << >>
  /\ NoSession
  /\ NoLogin

NextSession ==
  \/ \E c \in Callers :
       \/ getSessionToken_Fetch(c)
       \/ getSessionToken_Response(c)
       \/ getSessionToken_ErrorStatus(c)
       \/ getSessionToken_Rejected(c)
       \/ getSessionToken_Return(c)
       \/ loginWithABHA_Done(c)
  \/ Tick

SpecSession == InitSession /\ [][NextSession]_vars

---------------------------------------------------------------------------
(* The OTP login of the integration example: requestOTP posts the          *)
(* encrypted ABHA number and returns the txnId of the response, verifyOTP  *)
(* posts the txnId with the encrypted OTP and returns the profile and      *)
(* tokens of the response.  rsaEncrypt is kept as its plaintext.           *)

\* the client that runs the login
Client == "login1"

\* the abhaNumber arguments of requestOTP
LoginInputs ==
  {p \in NumberInputs :
     /\ p.start = 1
     /\ \/ p.n = 14 /\ p.style = "abha"
        \/ /\ p.n \in {13, 14} /\ p.style \in {"abha", "raw"}
           /\ p.pre = << >> /\ p.post = << >>}
    \cup {p \in AbsentInputs : p.family = "number"}

\* the otp arguments of verifyOTP
OtpInputs ==
  {Str(<<"1", "2", "3", "4", "5", "6">>), Str(<<"1", "2", "3", "4", "5">>),
   Str(<<"a", "b", "c", "d", "e", "f">>)}

\* the OTP the gateway sent to the user
SentOtp == Str(<<"1", "2", "3", "4", "5", "6">>)

\* the transaction ids: the gateway issues them in order, the client may
\* pass any of them to verifyOTP
TxnIds == 1..MaxNet

\* the JSON bodies a verify response may carry: ABHAProfile and tokens
\* (OTPVerifyResponse), accounts and tokens (MobileLoginResponse), both,
\* tokens alone, or an error body without tokens
Payloads == {"profile", "accounts", "both", "neither", "error"}

\* the accessToken the client passes to requestOTP and verifyOTP is the one
\* getSessionToken returned to it
HasAccessToken == pc[Client] = "done"

RequestCall(loginId) ==
  [api |-> "request", loginId |-> loginId, txnId |-> 0, otpValue |-> Null,
   requested |-> FALSE, verified |-> FALSE]

VerifyCall(txnId, otp) ==
  [api |-> "verify", loginId |-> << >>, txnId |-> txnId, otpValue |-> otp,
   requested |-> txnId \in issued, verified |-> txnId \in verified]

\* requestOTP: if (!isValidABHANumber(abhaNumber)) throw new Error(...)
requestOTP_Throw ==
  /\ step = "ready"
  /\ HasAccessToken
  /\ isValidABHANumber(InputValue(parts)) # Bool(TRUE)
  /\ outcome # ThrownError
  /\ outcome' = ThrownError
  /\ UNCHANGED <<step, net, issued, verified>>
  /\ UNCHANGED <<libraryVars, sessionVars>>

\* requestOTP: loginId: rsaEncrypt(abhaNumber.replace(/-/g, ''), publicKey)
\* is posted with fetch
requestOTP_Fetch ==
  /\ step = "ready"
  /\ HasAccessToken
  /\ isValidABHANumber(InputValue(parts)) = Bool(TRUE)
  /\ Len(net) < MaxNet
  /\ net' = Append(net, RequestCall(RemoveHyphens(InputValue(parts).s)))
  /\ step' = "requestOTP"
  /\ UNCHANGED <<issued, verified, outcome>>
  /\ UNCHANGED <<libraryVars, sessionVars>>

\* requestOTP: the response carries a new txnId, which is returned
requestOTP_Return ==
  /\ step = "requestOTP"
  /\ LET txnId == Cardinality(issued) + 1
     IN  /\ issued' = issued \cup {txnId}
         /\ outcome' = [kind |-> "txn", txnId |-> txnId]
  /\ step' = "ready"
  /\ UNCHANGED <<net, verified>>
  /\ UNCHANGED <<libraryVars, sessionVars>>

\* requestOTP: the response has an error status and its body no txnId:
\* { txnId: undefined, message } is returned
requestOTP_ErrorStatus ==
  /\ step = "requestOTP"
  /\ outcome' = [kind |-> "txn", txnId |-> 0]
  /\ step' = "ready"
  /\ UNCHANGED <<net, issued, verified>>
  /\ UNCHANGED <<libraryVars, sessionVars>>

\* requestOTP: fetch rejects (network failure, timeout)
requestOTP_Rejected ==
  /\ step = "requestOTP"
  /\ outcome' = ThrownTypeError
  /\ step' = "ready"
  /\ UNCHANGED <<net, issued, verified>>
  /\ UNCHANGED <<libraryVars, sessionVars>>

\* verifyOTP: the request is built from txnId and rsaEncrypt(otp, publicKey)
\* and posted with fetch, whatever txnId and otp are
verifyOTP_Fetch(txnId, otp) ==
  /\ step = "ready"
  /\ HasAccessToken
  /\ Len(net) < MaxNet
  /\ net' = Append(net, VerifyCall(txnId, otp))
  /\ step' = "verifyOTP"
  /\ UNCHANGED <<issued, verified, outcome>>
  /\ UNCHANGED <<libraryVars, sessionVars>>

\* the gateway accepts a verify call for a transaction it issued and has
\* not verified yet, with the OTP it sent
Accepts(call) ==
  call.requested /\ ~call.verified /\ call.otpValue = SentOtp

\* verifyOTP: the response is read: profile: data.ABHAProfile and tokens:
\* { token: data.tokens.token, ... } are returned; data.tokens.token of a
\* body without tokens is a TypeError
verifyOTP_Return(payload) ==
  /\ step = "verifyOTP"
  /\ payload = "error" \/ Accepts(net[Len(net)])
  /\ IF payload = "error"
     THEN /\ outcome' = ThrownTypeError
          /\ UNCHANGED verified
     ELSE /\ outcome' = [kind |-> "login", payload |-> payload,
                         profile |-> payload \in {"profile", "both"},
                         accounts |-> FALSE]
          /\ verified' = verified \cup {net[Len(net)].txnId}
  /\ step' = "ready"
  /\ UNCHANGED <<net, issued>>
  /\ UNCHANGED <<libraryVars, sessionVars>>

\* verifyOTP: fetch rejects (network failure, timeout)
verifyOTP_Rejected ==
  /\ step = "verifyOTP"
  /\ outcome' = ThrownTypeError
  /\ step' = "ready"
  /\ UNCHANGED <<net, issued, verified>>
  /\ UNCHANGED <<libraryVars, sessionVars>>

InitLogin ==
  /\ parts \in LoginInputs
  /\ calls = << >>
  /\ vals = <<InputValue(parts)>>
  /\ NoSession
  /\ NoLogin

NextLogin ==
  \/ requestOTP_Throw
  \/ requestOTP_Fetch
  \/ requestOTP_Return
  \/ requestOTP_ErrorStatus
  \/ requestOTP_Rejected
  \/ \E txnId \in TxnIds, otp \in OtpInputs : verifyOTP_Fetch(txnId, otp)
  \/ \E payload \in Payloads : verifyOTP_Return(payload)
  \/ verifyOTP_Rejected
  \/ getSessionToken_Fetch(Client)
  \/ getSessionToken_Response(Client)
  \/ getSessionToken_ErrorStatus(Client)
  \/ getSessionToken_Rejected(Client)
  \/ getSessionToken_Return(Client)
  \/ (pc[Client] = "failed" /\ loginWithABHA_Done(Client))

SpecLogin == InitLogin /\ [][NextLogin]_vars

---------------------------------------------------------------------------
(* The client: it calls one function on its input and may call a next one  *)
(* on the string the first returned.  Chains lists the follow-up calls.    *)

Chains ==
  {<<"formatABHANumber", "parseABHANumber">>,
   <<"maskABHANumber", "maskABHANumber">>,
   <<"maskMobile", "maskMobile">>,
   <<"maskAadhaar", "maskAadhaar">>,
   <<"formatABHANumber", "isValidABHANumber">>,
   <<"formatABHAAddress", "isValidABHAAddress">>,
   <<"formatMobile", "isValidMobile">>,
   <<"formatAadhaar", "isValidAadhaar">>,
   <<"toABHAGender", "fromABHAGender">>,
   <<"fromABHAGender", "toABHAGender">>,
   <<"toABHADate", "parseABHADate">>,
   <<"parseABHADate", "toABHADate">>,
   <<"formatABHANumber", "formatABHANumber">>,
   <<"formatMobile", "formatMobile">>,
   <<"formatAadhaar", "formatAadhaar">>,
   <<"cleanMobile", "cleanMobile">>}

\* the argument of the next call
Arg == vals[Len(vals)]

MayCall(f, family) ==
  /\ Len(calls) < MaxCalls
  /\ IF calls = << >> THEN parts.family = family
     ELSE /\ Arg.kind \in {"string", "date"}
          /\ <<calls[Len(calls)].fn, f>> \in Chains

Called(f, arg2, result) ==
  /\ calls' = Append(calls, [fn |-> f, arg2 |-> arg2])
  /\ vals' = Append(vals, result)
  /\ UNCHANGED parts
  /\ UNCHANGED <<sessionVars, loginVars>>

Init ==
  /\ parts \in Inputs
  /\ calls = << >>
  /\ vals = <<InputValue(parts)>>
  /\ NoSession
  /\ NoLogin

Call_isValidABHANumber ==
  /\ MayCall("isValidABHANumber", "number")
  /\ Called("isValidABHANumber", Null, isValidABHANumber(Arg))

Call_isValidABHANumberRaw ==
  /\ MayCall("isValidABHANumberRaw", "number")
  /\ Called("isValidABHANumberRaw", Null, isValidABHANumberRaw(Arg))

Call_formatABHANumber ==
  /\ MayCall("formatABHANumber", "number")
  /\ Called("formatABHANumber", Null, formatABHANumber(Arg))

Call_parseABHANumber ==
  /\ MayCall("parseABHANumber", "number")
  /\ Called("parseABHANumber", Null, parseABHANumber(Arg))

Call_maskABHANumber ==
  /\ MayCall("maskABHANumber", "number")
  /\ Called("maskABHANumber", Null, maskABHANumber(Arg))

Call_isValidMobile ==
  /\ MayCall("isValidMobile", "number")
  /\ Called("isValidMobile", Null, isValidMobile(Arg))

Call_maskMobile ==
  /\ MayCall("maskMobile", "number")
  /\ Called("maskMobile", Null, maskMobile(Arg))

Call_isValidAadhaar ==
  /\ MayCall("isValidAadhaar", "number")
  /\ Called("isValidAadhaar", Null, isValidAadhaar(Arg))

Call_maskAadhaar ==
  /\ MayCall("maskAadhaar", "number")
  /\ Called("maskAadhaar", Null, maskAadhaar(Arg))

Call_isValidPinCode ==
  /\ MayCall("isValidPinCode", "number")
  /\ Called("isValidPinCode", Null, isValidPinCode(Arg))

Call_isValidOTP ==
  /\ MayCall("isValidOTP", "number")
  /\ Called("isValidOTP", Null, isValidOTP(Arg))

Call_isValidABHAAddress ==
  /\ MayCall("isValidABHAAddress", "address")
  /\ Called("isValidABHAAddress", Null, isValidABHAAddress(Arg))

Call_formatABHAAddress ==
  /\ MayCall("formatABHAAddress", "address")
  /\ \E environment \in Environments :
       Called("formatABHAAddress", environment,
              formatABHAAddress(Arg, environment))

Call_parseABHAAddress ==
  /\ MayCall("parseABHAAddress", "address")
  /\ Called("parseABHAAddress", Null, parseABHAAddress(Arg))

Call_getEnvironmentFromAddress ==
  /\ MayCall("getEnvironmentFromAddress", "address")
  /\ Called("getEnvironmentFromAddress", Null, getEnvironmentFromAddress(Arg))

Call_formatMobile ==
  /\ MayCall("formatMobile", "number")
  /\ Called("formatMobile", Null, formatMobile(Arg))

Call_formatAadhaar ==
  /\ MayCall("formatAadhaar", "number")
  /\ Called("formatAadhaar", Null, formatAadhaar(Arg))

Call_toABHAGender ==
  /\ MayCall("toABHAGender", "sex")
  /\ Called("toABHAGender", Null, toABHAGender(Arg))

Call_fromABHAGender ==
  /\ MayCall("fromABHAGender", "gender")
  /\ Called("fromABHAGender", Null, fromABHAGender(Arg))

Call_formatABHAName ==
  /\ MayCall("formatABHAName", "name")
  /\ Called("formatABHAName", Null, formatABHAName(Arg))

Call_parseABHADate ==
  /\ MayCall("parseABHADate", "datestr")
  /\ Called("parseABHADate", Null, parseABHADate(Arg))

Call_toABHADate ==
  /\ MayCall("toABHADate", "date")
  /\ Called("toABHADate", Null, toABHADate(Arg))

Call_calculateAge ==
  /\ MayCall("calculateAge", "datestr")
  /\ \E today \in Todays :
       Called("calculateAge", today, calculateAge(Arg, today))

Call_cleanMobile ==
  /\ MayCall("cleanMobile", "mobile")
  /\ Called("cleanMobile", Null, cleanMobile(Arg))

Next ==
  \/ Call_isValidABHANumber
  \/ Call_isValidABHANumberRaw
  \/ Call_formatABHANumber
  \/ Call_parseABHANumber
  \/ Call_maskABHANumber
  \/ Call_isValidMobile
  \/ Call_maskMobile
  \/ Call_isValidAadhaar
  \/ Call_maskAadhaar
  \/ Call_isValidPinCode
  \/ Call_isValidOTP
  \/ Call_isValidABHAAddress
  \/ Call_formatABHAAddress
  \/ Call_parseABHAAddress
  \/ Call_getEnvironmentFromAddress
  \/ Call_formatMobile
  \/ Call_formatAadhaar
  \/ Call_toABHAGender
  \/ Call_fromABHAGender
  \/ Call_formatABHAName
  \/ Call_parseABHADate
  \/ Call_toABHADate
  \/ Call_calculateAge
  \/ Call_cleanMobile

Spec == Init /\ [][Next]_vars

---------------------------------------------------------------------------
(* What the properties below read off a state *)

\* the first call is a call of f
First(f) == calls # << >> /\ calls[1].fn = f

\* the first two calls are f, then g on f's result
FirstTwo(f, g) == Len(calls) >= 2 /\ calls[1].fn = f /\ calls[2].fn = g

\* the client's input and the results of its first and second call
Given == vals[1]

Result1 == vals[2]

Result2 == vals[3]

\* the digits the input was built from, and the last four of them
InputDigits == Digits(parts.n, parts.start)

LastFour == SubSeq(InputDigits, parts.n - 3, parts.n)

\* the input is a string of exactly 14 digits and nothing else
FourteenDigits ==
  /\ parts.family = "number" /\ ~parts.absent
  /\ parts.n = 14 /\ parts.style = "raw"
  /\ parts.pre = << >> /\ parts.post = << >>

---------------------------------------------------------------------------
(* C1: for every string d of exactly 14 digits,                            *)
(* parseABHANumber(formatABHANumber(d)) equals d.                          *)
C1_RoundTrip ==
  (FirstTwo("formatABHANumber", "parseABHANumber") /\ FourteenDigits)
    => Result2 = Given

C1_Witness ==
  /\ FirstTwo("formatABHANumber", "parseABHANumber")
  /\ FourteenDigits
  /\ Result1 = Str(<<"1", "2", "-", "3", "4", "5", "6", "-",
                     "7", "8", "9", "0", "-", "1", "2", "3", "4">>)
  /\ Result2.kind = "string"

(* C2: for every string s, formatABHANumber(s) throws its wrong-length     *)
(* error if and only if s holds a number of digits other than 14; in every *)
(* other case it returns the 14 digits grouped 2-4-4-4 with hyphens.       *)
C2_WrongLengthIff ==
  (First("formatABHANumber") /\ ~parts.absent)
    => /\ (Result1 = ThrownError) <=> (parts.n # 14)
       /\ parts.n = 14 => Result1 = Str(Layout(InputDigits, "abha"))

C2_Witness ==
  /\ First("formatABHANumber")
  /\ parts.n = 14 /\ parts.style = "hyphen3" /\ parts.pre # << >>
  /\ Result1.kind = "string" /\ Len(Result1.s) = 17

(* C3: masking is idempotent: for every string x, mask(mask(x)) equals     *)
(* mask(x), for each of maskABHANumber, maskMobile and maskAadhaar, also   *)
(* for inputs with surrounding whitespace or embedded separators.          *)
C3_MaskIdempotent ==
  \A i \in 1..(Len(calls) - 1) :
    (/\ calls[i].fn \in {"maskABHANumber", "maskMobile", "maskAadhaar"}
     /\ calls[i + 1].fn = calls[i].fn)
      => vals[i + 2] = vals[i + 1]

C3_Witness ==
  /\ FirstTwo("maskABHANumber", "maskABHANumber")
  /\ parts.pre # << >> /\ parts.post # << >>
  /\ Result1 # Given
  /\ Result2 = Result1

(* C4: for every input its validator accepts, mask replaces all but the    *)
(* last four digits with X: maskABHANumber returns XX-XXXX-XXXX- and the   *)
(* last four digits, maskMobile XXXXXX and the last four digits,           *)
(* maskAadhaar XXXXXXXX and the last four digits, also when the input has  *)
(* surrounding whitespace or spaces between the digits.                    *)
C4_MaskKeepsLastFour ==
  /\ (First("maskABHANumber") /\ isValidABHANumber(Given).kind = "true")
       => Result1 = Str(<<"X", "X", "-", "X", "X", "X", "X", "-",
                          "X", "X", "X", "X", "-">> \o LastFour)
  /\ (First("maskMobile") /\ isValidMobile(Given).kind = "true")
       => Result1 = Str(<<"X", "X", "X", "X", "X", "X">> \o LastFour)
  /\ (First("maskAadhaar") /\ isValidAadhaar(Given).kind = "true")
       => Result1 = Str(<<"X", "X", "X", "X", "X", "X", "X", "X">>
                          \o LastFour)

(* C5, as claimed: for every string x its validator rejects, the mask      *)
(* function returns x unchanged and does not fail.                         *)
C5_RejectedUnchanged ==
  /\ (First("maskABHANumber") /\ ~parts.absent
        /\ isValidABHANumber(Given).kind = "false") => Result1 = Given
  /\ (First("maskMobile") /\ ~parts.absent
        /\ isValidMobile(Given).kind = "false") => Result1 = Given
  /\ (First("maskAadhaar") /\ ~parts.absent
        /\ isValidAadhaar(Given).kind = "false") => Result1 = Given

(* C5, amended: maskABHANumber and maskAadhaar return every string their   *)
(* validator rejects unchanged; maskMobile returns a rejected string       *)
(* unchanged unless it holds exactly 10 digits, and then (the first digit  *)
(* is not 6-9) it returns XXXXXX and the last four digits.  None fails.    *)
C5_RejectedUnchangedAmended ==
  /\ (First("maskABHANumber") /\ ~parts.absent
        /\ isValidABHANumber(Given).kind = "false") => Result1 = Given
  /\ (First("maskAadhaar") /\ ~parts.absent
        /\ isValidAadhaar(Given).kind = "false") => Result1 = Given
  /\ (First("maskMobile") /\ ~parts.absent
        /\ isValidMobile(Given).kind = "false")
       => Result1 = IF parts.n = 10
                      THEN Str(<<"X", "X", "X", "X", "X", "X">> \o LastFour)
                      ELSE Given

C5_Witness ==
  /\ First("maskAadhaar") /\ ~parts.absent
  /\ isValidAadhaar(Given).kind = "false"
  /\ parts.n = 13 /\ parts.style = "space4"
  /\ Result1 = Given

---------------------------------------------------------------------------
(* Validators and addresses *)

Validators ==
  {"isValidABHANumber", "isValidABHANumberRaw", "isValidABHAAddress",
   "isValidMobile", "isValidAadhaar", "isValidPinCode", "isValidOTP"}

\* the validator named f applied to v
Validate(f, v) ==
  CASE f = "isValidABHANumber"    -> isValidABHANumber(v)
    [] f = "isValidABHANumberRaw" -> isValidABHANumberRaw(v)
    [] f = "isValidABHAAddress"   -> isValidABHAAddress(v)
    [] f = "isValidMobile"        -> isValidMobile(v)
    [] f = "isValidAadhaar"       -> isValidAadhaar(v)
    [] f = "isValidPinCode"       -> isValidPinCode(v)
    [] f = "isValidOTP"           -> isValidOTP(v)

IsLetter(c) == c \in Range(UpperSeq) \/ c \in Range(LowerSeq)

\* the input was built as username@domain, the username of 3 to 32 letters,
\* digits, '.', '_' and '-', the domain abdm or sbx in any letter case
WellFormedAddress ==
  /\ parts.family = "address" /\ ~parts.absent
  /\ Len(parts.user) >= 3 /\ Len(parts.user) <= 32
  /\ \A i \in 1..Len(parts.user) :
       \/ IsLetter(parts.user[i])
       \/ IsDigit(parts.user[i])
       \/ parts.user[i] \in {".", "_", "-"}
  /\ parts.sep = <<"@">>
  /\ ToLowerCase(parts.dom) \in {<<"a", "b", "d", "m">>, <<"s", "b", "x">>}

(* C6: every validator is total: it returns false and never fails on empty *)
(* or absent input, and its result on a string s equals its result on s    *)
(* with the surrounding whitespace trimmed.                                *)
C6_ValidatorsTotal ==
  (calls # << >> /\ calls[1].fn \in Validators)
    => /\ Result1.kind \in {"true", "false"}
       /\ (parts.absent \/ Given = Str(<< >>)) => Result1.kind = "false"
       /\ ~parts.absent => Result1 = Validate(calls[1].fn, Str(Core(parts)))

C6_Witness ==
  /\ First("isValidOTP")
  /\ parts.pre # << >> /\ parts.post # << >>
  /\ parts.n = 6 /\ parts.style = "raw"
  /\ Result1.kind = "true"

(* C7: isValidABHAAddress(s) is true exactly when s, trimmed, is a         *)
(* username of 3 to 32 letters, digits, '.', '_' and '-', then '@', then   *)
(* the domain abdm or sbx in any letter case: john.doe@abdm is accepted,   *)
(* john@gmail.com and ab@sbx are rejected.                                 *)
C7_AddressGrammar ==
  (First("isValidABHAAddress") /\ ~parts.absent)
    => (Result1.kind = "true" <=> WellFormedAddress)
       /\ (Result1.kind = "false" <=> ~WellFormedAddress)

C7_Witness ==
  /\ First("isValidABHAAddress")
  /\ Len(parts.user) = 32 /\ parts.dom = <<"A", "B", "D", "M">>
  /\ parts.pre # << >>
  /\ Result1.kind = "true"

(* C8: for every username u and environment e, formatABHAAddress(u, e) is  *)
(* the lower-cased, trimmed u followed by @sbx when e is sandbox and @abdm *)
(* when e is production; production is used when e is omitted.             *)
C8_FormatAddress ==
  (First("formatABHAAddress") /\ ~parts.absent)
    => Result1 =
         Str(ToLowerCase(Core(parts))
               \o (CASE calls[1].arg2 = Str(SANDBOX)    -> <<"@", "s", "b", "x">>
                     [] calls[1].arg2 = Str(PRODUCTION) -> <<"@", "a", "b", "d", "m">>
                     [] calls[1].arg2 = Null            -> <<"@", "a", "b", "d", "m">>))

C8_Witness ==
  /\ First("formatABHAAddress")
  /\ calls[1].arg2 = Str(SANDBOX)
  /\ parts.pre # << >> /\ parts.post # << >>
  /\ parts.user = <<"J", "o", "h", "n", "D", "o", "e">>
  /\ Result1 = Str(<<"j", "o", "h", "n", "d", "o", "e", "@", "s", "b", "x">>)

(* C9: getEnvironmentFromAddress returns, for every address that           *)
(* isValidABHAAddress accepts, sandbox when the domain is sbx and          *)
(* production when it is abdm (in any letter case, with or without         *)
(* surrounding whitespace), and null exactly when the address is invalid.  *)
C9_EnvironmentFromDomain ==
  First("getEnvironmentFromAddress")
    => IF isValidABHAAddress(Given).kind = "true"
         THEN Result1 = IF ToLowerCase(parts.dom) = <<"s", "b", "x">>
                          THEN Str(SANDBOX) ELSE Str(PRODUCTION)
         ELSE Result1 = Null

(* C10: parseABHAAddress never fails: it returns null exactly when         *)
(* isValidABHAAddress rejects the address, and otherwise the lower-cased   *)
(* username and domain that splitting the address on '@' gives.            *)
C10_ParseAddress ==
  First("parseABHAAddress")
    => /\ ~IsThrow(Result1)
       /\ (Result1 = Null) <=> (isValidABHAAddress(Given).kind = "false")
       /\ isValidABHAAddress(Given).kind = "true"
            => Result1 = Obj(ToLowerCase(parts.pre \o parts.user),
                             ToLowerCase(parts.dom \o parts.post))

C10_Witness ==
  /\ First("parseABHAAddress")
  /\ parts.user = <<"J", "o", "h", "n", "D", "o", "e">>
  /\ parts.dom = <<"S", "b", "x">>
  /\ Result1 = Obj(<<"j", "o", "h", "n", "d", "o", "e">>, <<"s", "b", "x">>)

---------------------------------------------------------------------------
(* Formatters *)

\* every character of s is a letter, a digit, '.', '_' or '-'
UsernameLike(s) ==
  \A i \in 1..Len(s) : IsLetter(s[i]) \/ IsDigit(s[i]) \/ s[i] \in {".", "_", "-"}

(* C11, as claimed: every value formatABHANumber, formatABHAAddress,       *)
(* formatMobile or formatAadhaar returns is accepted by the validator of   *)
(* its identifier family; an input that cannot be made valid is rejected,  *)
(* not returned.                                                           *)
C11_FormattedIsValid ==
  /\ FirstTwo("formatABHANumber", "isValidABHANumber") => Result2.kind = "true"
  /\ FirstTwo("formatABHAAddress", "isValidABHAAddress") => Result2.kind = "true"
  /\ FirstTwo("formatMobile", "isValidMobile") => Result2.kind = "true"
  /\ FirstTwo("formatAadhaar", "isValidAadhaar") => Result2.kind = "true"

(* C11, amended: every value formatABHANumber returns is accepted by       *)
(* isValidABHANumber, and it rejects (throws on) every string that does    *)
(* not hold 14 digits.  The other three formatters reject nothing: what    *)
(* formatMobile returns is accepted by isValidMobile exactly when the      *)
(* input holds 10 digits the first of which is 6-9, what formatAadhaar     *)
(* returns by isValidAadhaar exactly when the input holds 12 digits, what  *)
(* formatABHAAddress returns by isValidABHAAddress exactly when the        *)
(* trimmed username is 3 to 32 letters, digits, '.', '_' and '-'.          *)
C11_FormattedIsValidAmended ==
  /\ FirstTwo("formatABHANumber", "isValidABHANumber") => Result2.kind = "true"
  /\ (First("formatABHANumber") /\ ~parts.absent /\ parts.n # 14)
       => Result1 = ThrownError
  /\ FirstTwo("formatMobile", "isValidMobile")
       => (Result2.kind = "true"
             <=> (parts.n = 10 /\ parts.start \in {6, 7, 8, 9}))
  /\ FirstTwo("formatAadhaar", "isValidAadhaar")
       => (Result2.kind = "true" <=> parts.n = 12)
  /\ FirstTwo("formatABHAAddress", "isValidABHAAddress")
       => (Result2.kind = "true"
             <=> (/\ Len(Core(parts)) >= 3 /\ Len(Core(parts)) <= 32
                  /\ UsernameLike(Core(parts))))

C11_Witness ==
  /\ FirstTwo("formatABHANumber", "isValidABHANumber")
  /\ parts.style = "space4" /\ parts.post # << >>
  /\ Result1.kind = "string"
  /\ Result2.kind = "true"

(* C18: formatMobile and formatAadhaar are lenient: an input of exactly 10 *)
(* (mobile) or 12 (Aadhaar) digits comes back as the digits grouped 5+5 or *)
(* 4-4-4 with single spaces; every other string comes back unchanged, and  *)
(* neither function fails.                                                 *)
C18_LenientFormat ==
  /\ (First("formatMobile") /\ ~parts.absent)
       => Result1 = IF parts.n = 10 THEN Str(Layout(InputDigits, "space5"))
                    ELSE Given
  /\ (First("formatAadhaar") /\ ~parts.absent)
       => Result1 = IF parts.n = 12 THEN Str(Layout(InputDigits, "space4"))
                    ELSE Given

C18_Witness ==
  /\ First("formatAadhaar")
  /\ parts.n = 12 /\ parts.style = "abha" /\ parts.pre # << >>
  /\ Result1 = Str(<<"1", "2", "3", "4", " ", "5", "6", "7", "8", " ",
                     "9", "0", "1", "2">>)

---------------------------------------------------------------------------
(* Gender *)

(* C12: toABHAGender and fromABHAGender are total, mutually inverse        *)
(* bijections between {MALE, FEMALE, OTHER} and {M, F, O}:                 *)
(* fromABHAGender(toABHAGender(g)) = g and toABHAGender(fromABHAGender(c)) *)
(* = c.                                                                    *)
C12_GenderBijection ==
  /\ First("toABHAGender") => Result1 \in {Str(<<"M">>), Str(<<"F">>), Str(<<"O">>)}
  /\ First("fromABHAGender") => Result1 \in {Str(MALE), Str(FEMALE), Str(SexOTHER)}
  /\ FirstTwo("toABHAGender", "fromABHAGender") => Result2 = Given
  /\ FirstTwo("fromABHAGender", "toABHAGender") => Result2 = Given

C12_Witness ==
  /\ FirstTwo("toABHAGender", "fromABHAGender")
  /\ Given = Str(FEMALE)
  /\ Result1 = Str(<<"F">>)
  /\ Result2 = Str(FEMALE)
---------------------------------------------------------------------------
(* Names *)

\* the name parts of the input that are present and not the empty string
PresentParts ==
  SelectSeq(<<parts.first, parts.middle, parts.last>>,
            LAMBDA v : v.kind = "string" /\ v.s # << >>)

(* C13: for every combination of first, middle and last name parts,        *)
(* formatABHAName returns the non-empty, present parts in order joined by  *)
(* single spaces: the result never contains two consecutive spaces and     *)
(* never starts or ends with a space.                                      *)
C13_NameSingleSpaces ==
  First("formatABHAName") =>
    /\ Result1 = Str(Join(PresentParts, <<" ">>))
    /\ \A i \in 1..(Len(Result1.s) - 1) :
         ~(Result1.s[i] = " " /\ Result1.s[i + 1] = " ")
    /\ Result1.s # << >> =>
         (Result1.s[1] # " " /\ Result1.s[Len(Result1.s)] # " ")
---------------------------------------------------------------------------
(* Dates *)

\* the fields of the input date string name a day of the calendar
NamesCalendarDay ==
  /\ parts.yyyy >= 1
  /\ parts.mm \in 1..12
  /\ parts.dd >= 1
  /\ parts.dd <= DaysInMonth(parts.yyyy, parts.mm - 1)

(* C14: parseABHADate returns a date only for strings of the strict shape  *)
(* DD-MM-YYYY (two-digit day, two-digit month, four-digit year, hyphen     *)
(* separated); for every string of any other shape it returns null and     *)
(* does not fail.                                                          *)
C14_StrictShapeOnly ==
  (First("parseABHADate") /\ ~parts.absent) =>
    /\ ~IsThrow(Result1)
    /\ Result1.kind = "date" => parts.shape = "strict"
    /\ parts.shape # "strict" => Result1 = Null

C14_Witness ==
  /\ First("parseABHADate")
  /\ parts.shape = "trail" /\ NamesCalendarDay
  /\ Given = Str(<<"2", "6", "-", "1", "1", "-", "1", "9", "8", "9", " ">>)
  /\ Result1 = Null

(* C15: parseABHADate rejects an out-of-range month: for every string      *)
(* DD-MM-YYYY whose month field is not in 01..12 (for example              *)
(* '13-13-2020') it returns null.                                          *)
C15_MonthOutOfRange ==
  (First("parseABHADate") /\ ~parts.absent
     /\ parts.shape = "strict" /\ parts.mm \notin 1..12)
    => Result1 = Null

(* C16: date round trip: for every valid calendar date D from 0001-01-01   *)
(* to 9999-12-31, parseABHADate(toABHADate(D)) is the same calendar date   *)
(* D.                                                                      *)
C16_DateRoundTrip ==
  FirstTwo("toABHADate", "parseABHADate") =>
    Result2 = DateValue(parts.year, parts.month, parts.date)

(* C17: calculateAge returns the whole years elapsed between the date of   *)
(* birth and today: today's year minus the birth year, decremented by one  *)
(* when today's month/day precedes the birth month/day; it returns null    *)
(* when the date string fails to parse.  For '26-11-1989' against today =  *)
(* 2026-02-10 the result is 36.                                            *)
C17_Age ==
  (First("calculateAge") /\ ~parts.absent) =>
    LET today == calls[1].arg2
        precedes == \/ today.month + 1 < parts.mm
                    \/ (today.month + 1 = parts.mm /\ today.date < parts.dd)
    IN  /\ parts.shape # "strict" => Result1 = Null
        /\ (parts.shape = "strict" /\ NamesCalendarDay) =>
             Result1 = Num(today.year - parts.yyyy
                             - (IF precedes THEN 1 ELSE 0))
---------------------------------------------------------------------------
(* Session token *)

\* the credential-exchange calls in flight
InFlight == {c \in Callers : pc[c] = "fetch"}

\* token t can still be served at time at: at < issuedAt + expiresIn -
\* refreshBufferSeconds
Servable(t, at) ==
  /\ t # NoToken
  /\ at < t.issuedAt + t.expiresIn - TOKEN_REFRESH_BUFFER_SECONDS

(* C19: at most one token renewal is in flight at any time: when two or    *)
(* more callers request the session token concurrently while the cache is  *)
(* empty (or expired), exactly one credential-exchange call is issued and  *)
(* every caller receives that call's result.                               *)
C19_SingleRenewalInFlight == Cardinality(InFlight) <= 1

(* C20: the session token is served from cache with no network call        *)
(* exactly while now < issuedAt + expiresInSeconds - refreshBufferSeconds: *)
(* a call that starts while the token returned last can still be served    *)
(* issues no credential exchange; only a call that starts later renews.    *)
C20_ServedFromCache ==
  \A c \in Callers :
    pc[c] = "fetch" => ~Servable(started[c].latest, started[c].at)
---------------------------------------------------------------------------
(* Mobile numbers and formatting laws *)

\* the input is its digits and surrounding whitespace, nothing in between
PlainDigits == Layout(InputDigits, parts.style) = InputDigits

(* C27, as claimed: isValidMobile returns true exactly when the input      *)
(* (surrounding whitespace aside) is 10 digits of which the first is 6, 7, *)
(* 8 or 9, and false for every other string.                               *)
C27_MobileGrammar ==
  (First("isValidMobile") /\ ~parts.absent) =>
    Result1 = Bool(/\ parts.n = 10 /\ parts.start \in {6, 7, 8, 9}
                   /\ PlainDigits)

(* C27, amended: isValidMobile returns true exactly when the digits of the *)
(* input, every other character aside, are 10 digits of which the first is *)
(* 6, 7, 8 or 9, and false for every other string.                         *)
C27_MobileGrammarAmended ==
  (First("isValidMobile") /\ ~parts.absent) =>
    Result1 = Bool(parts.n = 10 /\ parts.start \in {6, 7, 8, 9})

C27_Witness ==
  /\ First("isValidMobile")
  /\ Given = Str(<<"9", "0", "1", "2", "3", " ", "4", "5", "6", "7", "8">>)
  /\ Result1 = Bool(TRUE)

(* C29: formatting is idempotent: for every string s,                      *)
(* formatMobile(formatMobile(s)) = formatMobile(s) and                     *)
(* formatAadhaar(formatAadhaar(s)) = formatAadhaar(s), and whenever        *)
(* formatABHANumber(s) succeeds, formatABHANumber(formatABHANumber(s))     *)
(* succeeds and equals formatABHANumber(s).                                *)
C29_FormatIdempotent ==
  /\ FirstTwo("formatMobile", "formatMobile") => Result2 = Result1
  /\ FirstTwo("formatAadhaar", "formatAadhaar") => Result2 = Result1
  /\ FirstTwo("formatABHANumber", "formatABHANumber") =>
       (Result2.kind = "string" /\ Result2 = Result1)

C29_Witness ==
  /\ FirstTwo("formatMobile", "formatMobile")
  /\ parts.n = 10 /\ parts.style = "raw" /\ parts.pre # << >>
  /\ Result1 # Given
  /\ Result2 = Str(<<"9", "0", "1", "2", "3", " ", "4", "5", "6", "7", "8">>)

\* the input starts with the country code 91, written 91, +91 or '+91 '
CountryCode91 ==
  parts.prefix \in {<<"9", "1">>, <<"+", "9", "1">>, <<"+", "9", "1", " ">>}

(* C30: cleanMobile is a normalisation: for every string x its result      *)
(* contains only digit characters and cleanMobile(cleanMobile(x)) equals   *)
(* cleanMobile(x); when the digits of x are the country code 91 followed   *)
(* by a 10-digit number m, the result is m, and when x holds a valid       *)
(* 10-digit mobile with no prefix the result is that number unchanged.     *)
C30_CleanMobile ==
  /\ (First("cleanMobile") /\ ~parts.absent) =>
       /\ Result1.kind = "string"
       /\ \A i \in 1..Len(Result1.s) : Result1.s[i] \in Digit
       /\ (CountryCode91 /\ parts.n = 10) => Result1 = Str(InputDigits)
       /\ (parts.prefix = << >> /\ parts.n = 10
             /\ parts.start \in {6, 7, 8, 9}) => Result1 = Str(InputDigits)
  /\ FirstTwo("cleanMobile", "cleanMobile") => Result2 = Result1

C30_Witness ==
  /\ FirstTwo("cleanMobile", "cleanMobile")
  /\ parts.prefix = <<"+", "9", "1", " ">> /\ parts.n = 10
  /\ parts.style = "space5" /\ parts.start = 9
  /\ Result1 = Str(InputDigits)
  /\ Result2 = Result1

(* C26: toABHADate is the exact inverse of parseABHADate on valid dates:   *)
(* for every string s of the form DD-MM-YYYY that denotes a real calendar  *)
(* date (any four-digit year), toABHADate(parseABHADate(s)) = s.           *)
C26_FormatInvertsParse ==
  (FirstTwo("parseABHADate", "toABHADate")
     /\ parts.shape = "strict" /\ NamesCalendarDay)
    => Result2 = Given
---------------------------------------------------------------------------
(* OTP login *)

\* the verify calls among the network calls issued
VerifyCalls == {i \in DOMAIN net : net[i].api = "verify"}

RequestCalls == {i \in DOMAIN net : net[i].api = "request"}

(* C21: terminal transaction states are absorbing: once verifyOTP has      *)
(* moved a transaction to Verified, a second verifyOTP on the same txnId   *)
(* fails and issues no network call: no txnId that a verify call has      *)
(* taken to Verified is ever submitted in another verify call.             *)
C21_VerifiedAbsorbing == \A i \in VerifyCalls : ~net[i].verified

(* C22: validation failures never reach the network: requestOTP with an    *)
(* identifier its validator rejects, and verifyOTP with an OTP that        *)
(* isValidOTP rejects, each fail with a validation error before any        *)
(* network call is issued.                                                 *)
C22_ValidationBeforeNetwork ==
  /\ \A i \in RequestCalls :
       ~parts.absent /\ parts.n = 14 /\ parts.style = "abha"
  /\ \A i \in VerifyCalls : isValidOTP(net[i].otpValue) = Bool(TRUE)

(* C23: no verifyOTP network call is ever issued before requestOTP has     *)
(* completed successfully for that transaction: a verify attempted on a    *)
(* transaction that is not in the Requested state is rejected.             *)
C23_VerifyAfterRequest ==
  \A i \in VerifyCalls : net[i].requested /\ ~net[i].verified

(* C24: every successful verifyOTP returns exactly one of the two result   *)
(* shapes, one profile with tokens or a non-empty list of account          *)
(* summaries, never both and never neither; a remote payload carrying both *)
(* or neither is reported as an error, not as a result.                    *)
C24_OneResultShape ==
  outcome.kind = "login" =>
    /\ outcome.profile # outcome.accounts
    /\ outcome.payload \in {"profile", "accounts"}

(* C28: whenever requestOTP issues its network call, the plaintext that    *)
(* was encrypted as loginId is exactly the 14 digits of the ABHA number,   *)
(* with no hyphens, whitespace or other characters, for every ABHA number  *)
(* that passes the isValidABHANumber check at the start of requestOTP.     *)
C28_LoginIdIsFourteenDigits ==
  \A i \in RequestCalls :
    Len(net[i].loginId) = 14 /\ net[i].loginId = InputDigits

\* the client's last call was a verify call that failed
VerifyFailed ==
  /\ step = "ready" /\ IsThrow(outcome)
  /\ net # << >> /\ net[Len(net)].api = "verify"

(* C25: a failed or timed-out network call does not advance state: a       *)
(* failure or timeout during token acquisition leaves the client without a *)
(* token (never a partial one) and surfaces the error, so that a call of   *)
(* getSessionToken that returns has a token to return; and a timeout       *)
(* during verifyOTP leaves the transaction as it was, in Requested, so     *)
(* that verify can be issued again with the same txnId.                    *)
C25_FailureKeepsState ==
  /\ pc[Client] = "failed" => handed[Client] = NoToken
  /\ pc[Client] = "done" => handed[Client] # NoToken
  /\ (VerifyFailed /\ net[Len(net)].requested /\ ~net[Len(net)].verified)
       => /\ net[Len(net)].txnId \in issued \ verified
          /\ (Len(net) < MaxNet /\ HasAccessToken)
               => ENABLED verifyOTP_Fetch(net[Len(net)].txnId,
                                          net[Len(net)].otpValue)

====
